---- MODULE Spec2Model ----
(***************************************************************************)
(* Gold price bots: the Pegadaian page acquirer (HTMLDownloader), markup   *)
(* extractor and record store of src/src/harga_emas_pegadaian.py, the UBS  *)
(* fetcher, extractor and record store of src/src/harga_emas_ubs.py, and   *)
(* the two entry points of src/bots.                                       *)
(***************************************************************************)
EXTENDS Integers, Sequences, FiniteSets, TLC

(* ------------------------------ bounds --------------------------------- *)
\* longest proxy configuration list
MaxProxies == 2
\* store calls made in a row against one destination
MaxCalls == 2
\* longest price list handed to the Pegadaian store
MaxPrices == 3
\* longest list of records handed to the UBS store
MaxRecords == 2
\* most text nodes of an artifact
MaxNodes == 3
\* most entries of a fetched series
MaxEntries == 2
\* latest calendar day (days since the epoch, Asia/Jakarta) on the command line
MaxDay == 2

(* -------------------------- program constants -------------------------- *)
\* max_wait of the readiness poll, in seconds
max_wait == 60
\* poll_interval of the readiness poll, in seconds
poll_interval == 2
\* DataCleaning.EXPECTED_PRICE_COUNT
EXPECTED_PRICE_COUNT == 2
\* UTC offset of ZoneInfo("Asia/Jakarta"), in seconds
JakartaOffset == 25200
\* interval of the single-date modes
DefaultInterval == 7

(* ------------------------------ values --------------------------------- *)
\* Python values a scraper can return: None, "" and a file name.
None == [t |-> "None", n |-> 0]
EmptyStr == [t |-> "str", n |-> 0]
Filename(n) == [t |-> "str", n |-> n]
\* Python truthiness of such a value (line 196: `if result:`).
Truthy(v) == v.t = "str" /\ v.n > 0

\* Python values handed between the stages: None, one record (dict) or a list
NoneVal == [t |-> "None", v |-> <<>>]
ListVal(v) == [t |-> "list", v |-> v]
DictVal(r) == [t |-> "dict", v |-> <<r>>]

\* no DataCleaning object yet, and nothing done by its run()
NoCleaner ==
  [data |-> NoneVal, target_date |-> <<>>, start_date |-> <<>>,
   end_date |-> <<>>]
NotRead == [branch |-> "none", entries |-> {}]

\* an artifact: its text nodes and the loading indicators its raw text holds
NoMarkup == [nodes |-> <<>>, ind |-> {}]

\* reported uptime of a descriptor: the key is missing, or it holds a
\* percentage int() can read ("50%", "90%") or cannot (such as "99.5%")
Uptimes == {[has |-> FALSE, num |-> TRUE, pct |-> 0],
            [has |-> TRUE, num |-> TRUE, pct |-> 50],
            [has |-> TRUE, num |-> TRUE, pct |-> 90],
            [has |-> TRUE, num |-> FALSE, pct |-> 0]}

VARIABLES
  \* --- proxy rotation (HTMLDownloader.run_with_proxy_rotation)
  config,      \* the "proxies" list of the YAML file: descriptors [id, uptime]
  proxies,     \* the local `proxies` (ranked list)
  pc,          \* position of the running top-level program
  idx,         \* index i of `for i, proxy_dict in enumerate(proxies)`, from 1
  downloader,  \* the local `downloader`: an object id, 0 for None / unbound
  nobj,        \* number of HTMLDownloader objects constructed so far
  open,        \* objects whose browser session (self.driver) is alive
  orphans,     \* objects with a live driver that the program no longer reaches
  attempts,    \* history of the acquisition attempts: [proxy, session, res]
  result,      \* value returned by the operation
  outcome,     \* "running", "returned" or "raised"
  \* --- one acquisition attempt (HTMLDownloader.run_scraper)
  spc,         \* position inside run_scraper
  elapsed,     \* the local `elapsed`
  sres,        \* value returned by run_scraper
  gate,        \* anti-bot wait of this attempt: "na", "passed", "timeout"
  waits,       \* number of anti-bot waits of this attempt
  checks,      \* number of markup checks of the readiness poll of this attempt
  detected,    \* whether a check saw the currency marker
  fault,       \* whether a driver call or the write failed after the gate
  files,       \* artifact files present on disk (named by the writing object)
  \* --- Pegadaian entry point (bots/harga_emas_pegadaian_v2.py)
  html_filename, \* the script's html_filename
  cleaned_data,  \* the script's cleaned_data
  markup,        \* content of the artifact the extractor read
  diagnosis,     \* what the extractor logged about a short price list
  stages,        \* the stages run so far, in order
  exitCode,      \* exit status of the process, -1 while it runs
  \* --- record stores (DataStoring of both sources) and their destination
  csv,         \* rows of the destination CSV file
  csvExists,   \* whether the destination file exists
  opens,       \* number of times the destination was opened
  call,        \* arguments of the store call in progress
  last,        \* what the last store call did
  ncalls,      \* number of store calls made
  \* --- UBS entry point (bots/harga_emas_ubs.py)
  argv,        \* dates given on the command line
  today,       \* the current date in Asia/Jakarta
  response,    \* what the endpoint answers to a request
  requests,    \* number of requests sent
  interval,    \* the script's interval
  data,        \* the script's data
  price_data,  \* the script's price_data
  cleaner,     \* the DataCleaning object: data, target_date, start_date, end_date
  read         \* what its run() did: the branch taken, the entries it read

rotVars == <<config, proxies, pc, idx, downloader, nobj, open, orphans,
             attempts, result, outcome>>
scrVars == <<spc, elapsed, sres, gate, waits, checks, detected, fault, files>>
pegVars == <<html_filename, cleaned_data, markup, diagnosis, stages, exitCode>>
csvVars == <<csv, csvExists, opens, call, last, ncalls>>
ubsVars == <<argv, today, response, requests, interval, data, price_data,
             cleaner, read>>
\* what the page acquirer leaves alone
restVars == <<pegVars, csvVars, ubsVars>>
vars == <<rotVars, scrVars, pegVars, csvVars, ubsVars>>

(* ------------------------- load_proxies -------------------------------- *)
\* sort key: int(x.get("uptime", "0%").rstrip("%"))
UptimeKey(p) == IF p.uptime.has THEN p.uptime.pct ELSE 0

\* p placed into the ranked list s behind every element whose key is >= its own
RECURSIVE InsertRanked(_, _)
InsertRanked(p, s) ==
  IF s = <<>> THEN <<p>>
  ELSE IF UptimeKey(Head(s)) >= UptimeKey(p)
       THEN <<Head(s)>> \o InsertRanked(p, Tail(s))
       ELSE <<p>> \o s

\* list.sort(key=..., reverse=True): stable, highest key first
RECURSIVE SortByUptime(_)
SortByUptime(s) ==
  IF s = <<>> THEN <<>>
  ELSE InsertRanked(s[Len(s)], SortByUptime(SubSeq(s, 1, Len(s) - 1)))

\* the sort computes the key of every element first: int() raises ValueError
\* on an uptime it cannot read
load_raises(cfg) == \E j \in 1..Len(cfg) : ~cfg[j].uptime.num

\* load_proxies without the sort
load_proxies_unsorted(cfg) == cfg

load_proxies(cfg) == SortByUptime(cfg)

\* format_proxy: the proxy string names the descriptor
format_proxy(p) == p.id

(* --------------------- session construction / teardown ----------------- *)
ScraperReset ==
  /\ spc' = "get"
  /\ elapsed' = 0
  /\ sres' = None
  /\ gate' = "na"
  /\ waits' = 0
  /\ checks' = 0
  /\ detected' = FALSE
  /\ fault' = FALSE

\* run_scraper has returned to its caller: its frame is gone
ScraperLeave ==
  /\ spc' = "idle"
  /\ elapsed' = 0
  /\ sres' = None
  /\ gate' = "na"
  /\ waits' = 0
  /\ checks' = 0
  /\ detected' = FALSE
  /\ fault' = FALSE
  /\ UNCHANGED files

\* quit_driver on object o: driver.quit(), self.driver = None
quit_driver(o) == open' = open \ {o}

\* __del__ run by the runtime on an unreachable object: quit_driver
Finalize ==
  /\ \E o \in orphans :
       /\ open' = open \ {o}
       /\ orphans' = orphans \ {o}
  /\ UNCHANGED <<config, proxies, pc, idx, downloader, nobj, attempts, result,
                 outcome, scrVars, restVars>>

(* ---------------------------- run_scraper ------------------------------ *)
\* positions of the top-level programs at which run_scraper is executing
ScrapingPcs == {"np_scrape", "scrape", "fb_scrape", "e_scrape"}

\* the name of the artifact the running attempt writes
ArtifactName == downloader

\* self.driver.get(TARGET_URL); a raise is caught by the outer except
Navigate ==
  /\ pc \in ScrapingPcs /\ spc = "get"
  /\ \/ /\ spc' = "antibot"
        /\ UNCHANGED <<sres, fault>>
     \/ /\ spc' = "ret"
        /\ sres' = None
        /\ fault' = TRUE
  /\ UNCHANGED <<restVars, rotVars, elapsed, gate, waits, checks, detected,
                 files>>

\* AntiBotWait with the timeout logged but not returned on
AntiBotWaitFallsThrough ==
  /\ pc \in ScrapingPcs /\ spc = "antibot"
  /\ waits' = waits + 1
  /\ gate' \in {"passed", "timeout"}
  /\ spc' = "poll"
  /\ elapsed' = 0
  /\ UNCHANGED <<restVars, rotVars, sres, fault, checks, detected, files>>

\* self.wait.until_not(EC.title_is("Just a moment...")), bounded by 60 s
AntiBotWait ==
  /\ pc \in ScrapingPcs /\ spc = "antibot"
  /\ waits' = waits + 1
  /\ \/ /\ gate' = "passed"
        /\ spc' = "poll"
        /\ elapsed' = 0
        /\ UNCHANGED <<sres, fault>>
     \/ \* TimeoutException: return None
        /\ gate' = "timeout"
        /\ spc' = "ret"
        /\ sres' = None
        /\ UNCHANGED <<elapsed, fault>>
     \/ \* any other exception: outer except, return None
        /\ spc' = "ret"
        /\ sres' = None
        /\ fault' = TRUE
        /\ UNCHANGED <<elapsed, gate>>
  /\ UNCHANGED <<restVars, rotVars, checks, detected, files>>

\* PollCheck under `while elapsed <= max_wait`
PollCheckInclusive ==
  /\ pc \in ScrapingPcs /\ spc = "poll"
  /\ elapsed <= max_wait
  /\ checks' = checks + 1
  /\ \/ /\ detected' = TRUE
        /\ spc' = "snapshot"
        /\ UNCHANGED <<elapsed, sres, fault>>
     \/ /\ elapsed' = elapsed + poll_interval
        /\ UNCHANGED <<spc, detected, sres, fault>>
     \/ /\ spc' = "ret"
        /\ sres' = None
        /\ fault' = TRUE
        /\ UNCHANGED <<elapsed, detected>>
  /\ UNCHANGED <<restVars, rotVars, gate, waits, files>>

\* one turn of `while elapsed < max_wait`
PollCheck ==
  /\ pc \in ScrapingPcs /\ spc = "poll"
  /\ elapsed < max_wait
  /\ checks' = checks + 1
  /\ \/ \* "Rp " in page_source: break
        /\ detected' = TRUE
        /\ spc' = "snapshot"
        /\ UNCHANGED <<elapsed, sres, fault>>
     \/ \* not yet: sleep, elapsed += poll_interval
        /\ elapsed' = elapsed + poll_interval
        /\ UNCHANGED <<spc, detected, sres, fault>>
     \/ \* driver.page_source raises
        /\ spc' = "ret"
        /\ sres' = None
        /\ fault' = TRUE
        /\ UNCHANGED <<elapsed, detected>>
  /\ UNCHANGED <<restVars, rotVars, gate, waits, files>>

\* PollCeiling with the ceiling treated like the anti-bot timeout
PollCeilingAborts ==
  /\ pc \in ScrapingPcs /\ spc = "poll"
  /\ ~(elapsed < max_wait)
  /\ spc' = "ret"
  /\ sres' = None
  /\ UNCHANGED <<restVars, rotVars, elapsed, gate, waits, checks, detected,
                 fault, files>>

\* the `else` of the while: the ceiling is reached, the HTML is saved anyway
PollCeiling ==
  /\ pc \in ScrapingPcs /\ spc = "poll"
  /\ ~(elapsed < max_wait)
  /\ spc' = "snapshot"
  /\ UNCHANGED <<restVars, rotVars, elapsed, sres, gate, waits, checks,
                 detected, fault, files>>

\* driver.title, then driver.page_source
Snapshot ==
  /\ pc \in ScrapingPcs /\ spc = "snapshot"
  /\ \/ /\ spc' = "save"
        /\ UNCHANGED <<sres, fault>>
     \/ /\ spc' = "ret"
        /\ sres' = None
        /\ fault' = TRUE
  /\ UNCHANGED <<restVars, rotVars, elapsed, gate, waits, checks, detected,
                 files>>

\* return self._save_to_html(page_source, filename)
save_to_html ==
  /\ pc \in ScrapingPcs /\ spc = "save"
  /\ spc' = "ret"
  /\ \/ /\ files' = files \cup {ArtifactName}
        /\ sres' = Filename(ArtifactName)
        /\ UNCHANGED fault
     \/ \* makedirs, open or write raises: logged, "" returned
        /\ files' \in {files, files \cup {ArtifactName}}
        /\ sres' = EmptyStr
        /\ fault' = TRUE
  /\ UNCHANGED <<restVars, rotVars, elapsed, gate, waits, checks, detected>>

run_scraper ==
  \/ Navigate
  \/ AntiBotWait
  \/ PollCheck
  \/ PollCeiling
  \/ Snapshot
  \/ save_to_html

(* ---------------------- run_with_proxy_rotation ------------------------ *)
Attempt(p, s, st, v) == [proxy |-> p, session |-> s, st |-> st, val |-> v]

\* the last attempt's record closed with the way it ended
CloseAttempt(st, v) ==
  [attempts EXCEPT ![Len(attempts)] = [@ EXCEPT !.st = st, !.val = v]]

\* proxies = cls.load_proxies(proxy_file)
LoadProxies ==
  /\ pc = "load"
  /\ IF load_raises(config)
     THEN \* the ValueError leaves run_with_proxy_rotation
          /\ pc' = "done"
          /\ outcome' = "raised"
          /\ UNCHANGED <<proxies, idx>>
     ELSE /\ proxies' = load_proxies(config)
          /\ idx' = 1
          /\ pc' = IF proxies' = <<>> THEN "np_ctor" ELSE "loop"
          /\ UNCHANGED outcome
  /\ UNCHANGED <<config, downloader, nobj, open, orphans, attempts, result,
                 scrVars, restVars>>

\* cls(...) outside any try, followed by try/finally (lines 180-184, 212-216):
\* a raise of the constructor leaves the operation
UnproxiedConstruct(to) ==
  LET o == nobj + 1 IN
  /\ nobj' = o
  /\ \/ \* _init_driver completes
        /\ open' = open \cup {o}
        /\ downloader' = o
        /\ attempts' = Append(attempts, Attempt(0, o, "pending", None))
        /\ pc' = to
        /\ ScraperReset
        /\ UNCHANGED <<orphans, outcome, files>>
     \/ \* webdriver.Chrome raises: no session was created
        /\ attempts' = Append(attempts, Attempt(0, 0, "raised", None))
        /\ pc' = "done"
        /\ outcome' = "raised"
        /\ UNCHANGED <<open, orphans, downloader, scrVars>>
     \/ \* implicitly_wait raises with self.driver already set
        /\ open' = open \cup {o}
        /\ orphans' = orphans \cup {o}
        /\ attempts' = Append(attempts, Attempt(0, o, "raised", None))
        /\ pc' = "done"
        /\ outcome' = "raised"
        /\ UNCHANGED <<downloader, scrVars>>
  /\ UNCHANGED <<config, proxies, idx, result, restVars>>

\* try: return downloader.run_scraper()  finally: downloader.quit_driver()
UnproxiedReturn ==
  /\ spc = "ret"
  /\ quit_driver(downloader)
  /\ attempts' = CloseAttempt("returned", sres)
  /\ result' = sres
  /\ outcome' = "returned"
  /\ pc' = "done"
  /\ ScraperLeave
  /\ UNCHANGED <<config, proxies, idx, downloader, nobj, orphans, restVars>>

\* `if not proxies:` branch
NoProxyConstruct == pc = "np_ctor" /\ UnproxiedConstruct("np_scrape")
NoProxyReturn == pc = "np_scrape" /\ UnproxiedReturn

\* one turn of the for loop up to the constructor (lines 187-193)
ProxyConstruct ==
  LET o == nobj + 1
      p == format_proxy(proxies[idx]) IN
  /\ pc = "loop" /\ idx <= Len(proxies)
  /\ nobj' = o
  /\ \/ /\ open' = open \cup {o}
        /\ downloader' = o
        /\ attempts' = Append(attempts, Attempt(p, o, "pending", None))
        /\ pc' = "scrape"
        /\ ScraperReset
        /\ UNCHANGED <<orphans, idx, files>>
     \/ \* webdriver.Chrome raises: except, finally with downloader None
        /\ attempts' = Append(attempts, Attempt(p, 0, "raised", None))
        /\ downloader' = 0
        /\ idx' = idx + 1
        /\ UNCHANGED <<open, orphans, pc, scrVars>>
     \/ \* implicitly_wait raises: downloader is still None, nothing is quit
        /\ open' = open \cup {o}
        /\ orphans' = orphans \cup {o}
        /\ attempts' = Append(attempts, Attempt(p, o, "raised", None))
        /\ downloader' = 0
        /\ idx' = idx + 1
        /\ UNCHANGED <<pc, scrVars>>
  /\ UNCHANGED <<config, proxies, result, outcome, restVars>>

\* ProxyReturn without the `return result` of the success branch
ProxyReturnKeepsGoing ==
  /\ pc = "scrape" /\ spc = "ret"
  /\ quit_driver(downloader)
  /\ attempts' = CloseAttempt("returned", sres)
  /\ idx' = idx + 1
  /\ pc' = "loop"
  /\ ScraperLeave
  /\ UNCHANGED <<config, proxies, downloader, nobj, orphans, result, outcome,
                 restVars>>

\* result = downloader.run_scraper(); if result: return result; finally quit
ProxyReturn ==
  /\ pc = "scrape" /\ spc = "ret"
  /\ quit_driver(downloader)
  /\ attempts' = CloseAttempt("returned", sres)
  /\ IF Truthy(sres)
     THEN /\ result' = sres
          /\ outcome' = "returned"
          /\ pc' = "done"
          /\ UNCHANGED idx
     ELSE /\ idx' = idx + 1
          /\ pc' = "loop"
          /\ UNCHANGED <<result, outcome>>
  /\ ScraperLeave
  /\ UNCHANGED <<config, proxies, downloader, nobj, orphans, restVars>>

\* FallbackConstruct reachable from any turn of the loop
FallbackConstructEarly ==
  /\ pc = "loop"
  /\ UnproxiedConstruct("fb_scrape")

\* all proxies failed: downloader = cls() as last resort
FallbackConstruct ==
  /\ pc = "loop" /\ idx > Len(proxies)
  /\ UnproxiedConstruct("fb_scrape")
FallbackReturn == pc = "fb_scrape" /\ UnproxiedReturn

\* variables of the programs that are not running
PegIdle ==
  /\ html_filename = None
  /\ cleaned_data = NoneVal
  /\ markup = NoMarkup
  /\ diagnosis = "none"
  /\ stages = <<>>
  /\ exitCode = -1

NoCall == [cls |-> "none", arg |-> NoneVal, html |-> None]
NoReport ==
  [cls |-> "none", wasEmpty |-> FALSE, header |-> 0, rows |-> 0,
   raised |-> FALSE, io |-> FALSE, removed |-> FALSE]

CsvIdle ==
  /\ csv = <<>>
  /\ csvExists = FALSE
  /\ opens = 0
  /\ call = NoCall
  /\ last = NoReport
  /\ ncalls = 0

UbsIdle ==
  /\ argv = <<>>
  /\ today = 0
  /\ response = NoneVal
  /\ requests = 0
  /\ interval = 0
  /\ data = NoneVal
  /\ price_data = NoneVal
  /\ cleaner = NoCleaner
  /\ read = NotRead

\* the proxy configuration files the operation can be given
Descriptor == [id : 1..MaxProxies, uptime : Uptimes]
Configs ==
  {c \in UNION {[1..n -> Descriptor] : n \in 0..MaxProxies} :
     \A j \in DOMAIN c : c[j].id = j}

ScraperIdle ==
  /\ spc = "idle"
  /\ elapsed = 0
  /\ sres = None
  /\ gate = "na"
  /\ waits = 0
  /\ checks = 0
  /\ detected = FALSE
  /\ fault = FALSE

InitRotation ==
  /\ config \in Configs
  /\ proxies = <<>>
  /\ pc = "load"
  /\ idx = 1
  /\ downloader = 0
  /\ nobj = 0
  /\ open = {}
  /\ orphans = {}
  /\ attempts = <<>>
  /\ result = None
  /\ outcome = "running"
  /\ ScraperIdle
  /\ files = {}
  /\ PegIdle /\ CsvIdle /\ UbsIdle

NextRotation ==
  \/ LoadProxies
  \/ NoProxyConstruct
  \/ NoProxyReturn
  \/ ProxyConstruct
  \/ ProxyReturn
  \/ FallbackConstruct
  \/ FallbackReturn
  \/ run_scraper
  \/ Finalize

SpecRotation == InitRotation /\ [][NextRotation]_vars

(* --------------------------- record stores ----------------------------- *)

HeaderRow(cls) == [kind |-> "header", cls |-> cls, rec |-> <<>>]
DataRow(cls, rec) == [kind |-> "data", cls |-> cls, rec |-> rec]
\* what an interrupted write leaves of a row
PartialRow(cls) == [kind |-> "partial", cls |-> cls, rec |-> <<>>]

\* HeaderNeeded with the check always succeeding
HeaderNeededAlways(rows) == TRUE

\* `if f.tell() == 0` on a file opened for append: the file holds nothing
HeaderNeeded(rows) == Len(rows) = 0

\* process_new_data: the guard that raises ValueError
PriceListInvalid(pl) == pl.t = "None" \/ Len(pl.v) = 0 \/ Len(pl.v) < 2

\* process_new_data: the row of a valid price list (id and timestamp left out)
process_new_data(pl) == DataRow("pegadaian", <<pl.v[1], pl.v[2]>>)

\* _build_row: the row of one UBS record
build_row(entry) == DataRow("ubs", <<entry.price, entry.date>>)

\* `entries = price_data if isinstance(price_data, list) else [price_data]`
EntriesOf(pd) == IF pd.t = "list" THEN pd.v ELSE <<pd.v[1]>>

\* the rows of the entries, last entry first
RowsOfReversed(entries) ==
  [j \in 1..Len(entries) |-> build_row(entries[Len(entries) + 1 - j])]

RowsOf(entries) == [j \in 1..Len(entries) |-> build_row(entries[j])]

NumKind(rows, k) == Cardinality({j \in 1..Len(rows) : rows[j].kind = k})

\* what the call did, for the rows `done` it appended to `before`
CallReport(cls, before, done, raised, io) ==
  [cls |-> cls, wasEmpty |-> Len(before) = 0,
   header |-> NumKind(done, "header"), rows |-> NumKind(done, "data"),
   raised |-> raised, io |-> io, removed |-> FALSE]

\* the ways appending the rows `new` can end: all written, or an I/O error
\* after j of them, with or without a piece of the next row
WriteOutcomes(cls, new) ==
  {[done |-> new, ok |-> TRUE]}
  \cup {[done |-> SubSeq(new, 1, j), ok |-> FALSE] : j \in 0..(Len(new) - 1)}
  \cup {[done |-> Append(SubSeq(new, 1, j), PartialRow(cls)), ok |-> FALSE] :
          j \in 0..(Len(new) - 1)}

\* open(output_file, "a") raises: nothing is created or written
OpenFails(cls, toFail) ==
  /\ last' = CallReport(cls, csv, <<>>, TRUE, TRUE)
  /\ pc' = toFail
  /\ UNCHANGED <<csv, csvExists, opens>>

\* Pegadaian DataStoring.insert_new_data
insert_new_data(at, toOk, toFail) ==
  LET hdr == IF HeaderNeeded(csv) THEN <<HeaderRow("pegadaian")>> ELSE <<>> IN
  /\ pc = at
  /\ \/ OpenFails("pegadaian", toFail)
     \/ /\ csvExists' = TRUE
        /\ opens' = opens + 1
        /\ IF PriceListInvalid(call.arg)
           THEN \* the header is written, then process_new_data raises
                /\ csv' = csv \o hdr
                /\ last' = CallReport("pegadaian", csv, hdr, TRUE, FALSE)
                /\ pc' = toFail
           ELSE \E w \in WriteOutcomes("pegadaian",
                                       hdr \o <<process_new_data(call.arg)>>) :
                  /\ csv' = csv \o w.done
                  /\ last' = CallReport("pegadaian", csv, w.done, ~w.ok, ~w.ok)
                  /\ pc' = IF w.ok THEN toOk ELSE toFail
  /\ UNCHANGED <<call, ncalls>>

\* Pegadaian DataStoring.run, second statement: os.remove(self.html_file)
remove_html(at, to) ==
  /\ pc = at
  /\ IF Truthy(call.html) /\ call.html.n \in files
     THEN /\ files' = files \ {call.html.n}
          /\ last' = [last EXCEPT !.removed = TRUE]
     ELSE \* no such file, or html_file is None: os.remove raises
          /\ last' = [last EXCEPT !.raised = TRUE]
          /\ UNCHANGED files
  /\ pc' = to

\* UBS DataStoring.run
ubs_store_run(at, toOk, toFail) ==
  LET hdr == IF HeaderNeeded(csv) THEN <<HeaderRow("ubs")>> ELSE <<>> IN
  /\ pc = at
  /\ \/ OpenFails("ubs", toFail)
     \/ /\ csvExists' = TRUE
        /\ opens' = opens + 1
        /\ \E w \in WriteOutcomes("ubs", hdr \o RowsOf(EntriesOf(call.arg))) :
             /\ csv' = csv \o w.done
             /\ last' = CallReport("ubs", csv, w.done, ~w.ok, ~w.ok)
             /\ pc' = IF w.ok THEN toOk ELSE toFail
  /\ UNCHANGED <<call, ncalls>>

(* ------------------ store calls against one destination --------------- *)
RotationIdle ==
  /\ config = <<>>
  /\ proxies = <<>>
  /\ idx = 1
  /\ downloader = 0
  /\ nobj = 0
  /\ open = {}
  /\ orphans = {}
  /\ attempts = <<>>
  /\ result = None
  /\ outcome = "running"

\* everything of the page acquirer but pc and files
acqLocals == <<config, proxies, idx, downloader, nobj, open, orphans, attempts,
               result, outcome, spc, elapsed, sres, gate, waits, checks,
               detected, fault>>

\* cleaned price strings: the digits of a text node, possibly none
Cleaned == {<<>>, <<"1", "5">>}
\* price lists a caller can hand to the Pegadaian store
PriceLists ==
  {NoneVal}
  \cup {ListVal(v) : v \in UNION {[1..n -> Cleaned] : n \in 0..MaxPrices}}

\* UBS records and the price data a caller can hand to the UBS store
Records == {[price |-> 100, date |-> 1], [price |-> 200, date |-> 2]}
PriceDatas ==
  {DictVal(r) : r \in Records}
  \cup {ListVal(v) : v \in UNION {[1..n -> Records] : n \in 0..MaxRecords}}

\* DataStoring(html_file, output_file, price_list) is constructed
StartPegadaianStore ==
  /\ pc = "s_idle" /\ ncalls < MaxCalls
  /\ \E pl \in PriceLists, h \in {Filename(ncalls + 1), None} :
       call' = [cls |-> "pegadaian", arg |-> pl, html |-> h]
  /\ ncalls' = ncalls + 1
  /\ pc' = "s_insert"
  /\ UNCHANGED <<acqLocals, files, pegVars, ubsVars, csv, csvExists, opens,
                 last>>

\* StoreInsert as if run() removed the artifact in a `finally`
StoreInsertThenAlwaysRemove ==
  /\ insert_new_data("s_insert", "s_remove", "s_remove")
  /\ UNCHANGED <<acqLocals, files, pegVars, ubsVars>>

\* DataStoring.run: self.insert_new_data(); a raise leaves run()
StoreInsert ==
  /\ insert_new_data("s_insert", "s_remove", "s_idle")
  /\ UNCHANGED <<acqLocals, files, pegVars, ubsVars>>

\* DataStoring.run: os.remove(self.html_file)
StoreRemove ==
  /\ remove_html("s_remove", "s_idle")
  /\ UNCHANGED <<acqLocals, pegVars, ubsVars, csv, csvExists, opens, call,
                 ncalls>>

\* UBS DataStoring(output_file, price_data) is constructed
StartUBSStore ==
  /\ pc = "s_idle" /\ ncalls < MaxCalls
  /\ \E pd \in PriceDatas : call' = [cls |-> "ubs", arg |-> pd, html |-> None]
  /\ ncalls' = ncalls + 1
  /\ pc' = "s_ubs"
  /\ UNCHANGED <<acqLocals, files, pegVars, ubsVars, csv, csvExists, opens,
                 last>>

StoreUBS ==
  /\ ubs_store_run("s_ubs", "s_idle", "s_idle")
  /\ UNCHANGED <<acqLocals, files, pegVars, ubsVars>>

\* the destination starts nonexistent or zero-length; every call has its artifact
InitStore ==
  /\ pc = "s_idle"
  /\ RotationIdle /\ ScraperIdle /\ PegIdle /\ UbsIdle
  /\ files = 1..MaxCalls
  /\ csv = <<>>
  /\ csvExists \in BOOLEAN
  /\ opens = 0
  /\ call = NoCall
  /\ last = NoReport
  /\ ncalls = 0

NextStore ==
  \/ StartPegadaianStore
  \/ StoreInsert
  \/ StoreRemove
  \/ StartUBSStore
  \/ StoreUBS

SpecStore == InitStore /\ [][NextStore]_vars

(* ----------------------- Pegadaian DataCleaning ------------------------ *)
\* a text node is a sequence of tokens: the marker "Rp ", digits, other text
IsDigit(c) == c \in {"0", "1", "2", "3", "4", "5", "6", "7", "8", "9"}
HasMarker(text) == \E j \in 1..Len(text) : text[j] = "Rp "

\* soup.find_all(string=re.compile("Rp ")): the text nodes holding the marker
get_price_list(m) == SelectSeq(m.nodes, HasMarker)

\* "".join(re.findall(r'\d+', item)): the digits of the node, in order
CleanPrice(text) == SelectSeq(text, IsDigit)

\* str.lower() on the tokens the raw text can hold
Lower(tok) ==
  CASE tok = "LOADING-SPINNER" -> "loading-spinner"
    [] tok = "Skeleton" -> "skeleton"
    [] OTHER -> tok

loading_indicators == {"loading-spinner", "skeleton", "nuxt-loading"}

\* _check_loading_state comparing the raw content, not the lowered one
check_loading_state_exact(m) ==
  {ind \in loading_indicators : ind \in m.ind}

\* _check_loading_state: the indicators found in the lowered content
check_loading_state(m) ==
  {ind \in loading_indicators : \E tok \in m.ind : Lower(tok) = Lower(ind)}

cleaned_prices(m) ==
  LET raw == get_price_list(m) IN [j \in 1..Len(raw) |-> CleanPrice(raw[j])]

\* DataCleaning.run: the value returned
DataCleaning_run(m) ==
  IF Len(cleaned_prices(m)) < EXPECTED_PRICE_COUNT
  THEN NoneVal
  ELSE ListVal(cleaned_prices(m))

\* DataCleaning.run: the error it logs
DataCleaning_log(m) ==
  IF Len(cleaned_prices(m)) < EXPECTED_PRICE_COUNT
  THEN IF check_loading_state(m) # {} THEN "StillLoading" ELSE "StructureChanged"
  ELSE "ok"

\* the artifacts the extractor can be given
TextNodes == {<<"Rp ", "1", ".", "5">>, <<"Rp ">>, <<"1", "5">>}
Markups ==
  [nodes : UNION {[1..n -> TextNodes] : n \in 0..MaxNodes},
   ind : {{}, {"LOADING-SPINNER"}, {"nuxt-loading", "other"}}]

(* ------------- Pegadaian entry point (harga_emas_pegadaian_v2) --------- *)
\* everything of the rotation but what the entry point's STEP 1 uses
rotOnly == <<config, proxies, idx, attempts, result, outcome>>

\* STEP 1 up to the constructor: downloader = HTMLDownloader()
EntryConstruct ==
  LET o == nobj + 1 IN
  /\ pc = "e_ctor"
  /\ nobj' = o
  /\ stages' = Append(stages, "acquire")
  /\ \/ /\ open' = open \cup {o}
        /\ downloader' = o
        /\ pc' = "e_scrape"
        /\ ScraperReset
        /\ UNCHANGED <<orphans, files>>
     \/ \* webdriver.Chrome raises: logged, html_filename stays None
        /\ pc' = "e_clean"
        /\ UNCHANGED <<open, orphans, downloader, scrVars>>
     \/ \* implicitly_wait raises with self.driver set
        /\ open' = open \cup {o}
        /\ orphans' = orphans \cup {o}
        /\ pc' = "e_clean"
        /\ UNCHANGED <<downloader, scrVars>>
  /\ UNCHANGED <<rotOnly, html_filename, cleaned_data, markup, diagnosis,
                 exitCode, csvVars, ubsVars>>

\* html_filename = downloader.run_scraper(); finally: del downloader
EntryScraped ==
  /\ pc = "e_scrape" /\ spc = "ret"
  /\ html_filename' = sres
  /\ orphans' = orphans \cup {downloader}
  /\ downloader' = 0
  /\ pc' = "e_clean"
  /\ ScraperLeave
  /\ UNCHANGED <<rotOnly, nobj, open, cleaned_data, markup, diagnosis, stages,
                 exitCode, csvVars, ubsVars>>

\* STEP 2: cleaned_data = DataCleaning(html_filename).run(), raises caught
EntryClean ==
  /\ pc = "e_clean"
  /\ stages' = Append(stages, "extract")
  /\ IF Truthy(html_filename) /\ html_filename.n \in files
     THEN \E m \in Markups :
            /\ markup' = m
            /\ cleaned_data' = DataCleaning_run(m)
            /\ diagnosis' = DataCleaning_log(m)
     ELSE \* open(None) / open("") raises: cleaned_data stays None
          UNCHANGED <<markup, cleaned_data, diagnosis>>
  /\ pc' = "e_store"
  /\ UNCHANGED <<rotOnly, downloader, nobj, open, orphans, html_filename,
                 exitCode, scrVars, csvVars, ubsVars>>

\* STEP 3: data_store = DataStoring(html_filename, OUTPUT_FILE, cleaned_data)
EntryStoreConstruct ==
  /\ pc = "e_store"
  /\ stages' = Append(stages, "store")
  /\ call' = [cls |-> "pegadaian", arg |-> cleaned_data, html |-> html_filename]
  /\ ncalls' = ncalls + 1
  /\ pc' = "e_insert"
  /\ UNCHANGED <<acqLocals, files, html_filename, cleaned_data, markup,
                 diagnosis, exitCode, csv, csvExists, opens, last, ubsVars>>

\* the script runs off its end: the process exits with status 0
ExitAtEnd == exitCode' = IF pc' = "e_exit" THEN 0 ELSE exitCode

\* data_store.run(): insert_new_data; a raise is logged by the script
EntryStoreInsert ==
  /\ insert_new_data("e_insert", "e_remove", "e_exit")
  /\ ExitAtEnd
  /\ UNCHANGED <<acqLocals, files, html_filename, cleaned_data, markup,
                 diagnosis, stages, ubsVars>>

\* data_store.run(): os.remove; a raise is logged by the script
EntryStoreRemove ==
  /\ remove_html("e_remove", "e_exit")
  /\ ExitAtEnd
  /\ UNCHANGED <<acqLocals, html_filename, cleaned_data, markup, diagnosis,
                 stages, csv, csvExists, opens, call, ncalls, ubsVars>>

\* the destination before a run: missing, empty, or holding earlier rows
Destinations(cls) ==
  {[exists |-> FALSE, rows |-> <<>>], [exists |-> TRUE, rows |-> <<>>],
   [exists |-> TRUE, rows |-> <<HeaderRow(cls), DataRow(cls, <<>>)>>]}

InitPegadaian ==
  /\ pc = "e_ctor"
  /\ RotationIdle /\ ScraperIdle /\ PegIdle /\ UbsIdle
  /\ files = {}
  /\ \E d \in Destinations("pegadaian") : csv = d.rows /\ csvExists = d.exists
  /\ opens = 0
  /\ call = NoCall
  /\ last = NoReport
  /\ ncalls = 0

NextPegadaian ==
  \/ EntryConstruct
  \/ run_scraper
  \/ EntryScraped
  \/ Finalize
  \/ EntryClean
  \/ EntryStoreConstruct
  \/ EntryStoreInsert
  \/ EntryStoreRemove

SpecPegadaian == InitPegadaian /\ [][NextPegadaian]_vars

(* ------------------------------- UBS ----------------------------------- *)
AVAILABLE_INTERVALS == <<7, 30, 90, 180, 365, 1095>>

\* first interval of the list, from position j on, that covers days_diff
RECURSIVE FirstCovering(_, _)
FirstCovering(days_diff, j) ==
  IF j > Len(AVAILABLE_INTERVALS) THEN AVAILABLE_INTERVALS[Len(AVAILABLE_INTERVALS)]
  ELSE IF AVAILABLE_INTERVALS[j] >= days_diff THEN AVAILABLE_INTERVALS[j]
  ELSE FirstCovering(days_diff, j + 1)

\* select_interval without the inclusive day count
select_interval_exclusive(start_date, end_date) ==
  FirstCovering(end_date - start_date, 1)

\* select_interval: dates are day numbers
select_interval(start_date, end_date) ==
  FirstCovering((end_date - start_date) + 1, 1)

\* datetime.fromtimestamp(ts / 1000, tz=Asia/Jakarta).date(), ts in milliseconds
LocalDate(ts) == ((ts \div 1000) + JakartaOffset) \div 86400

\* _parse_entry: close is entry[4]; the date string is named by its day number
parse_entry(entry) == [price |-> entry.close, date |-> LocalDate(entry.ts)]

\* optional dates: <<>> is None, <<d>> a date
HasDate(od) == Len(od) > 0

\* _run_single searching the whole series for the target date
run_single_scanning(series, target_date, now) ==
  LET target == IF HasDate(target_date) THEN target_date[1] ELSE now
      hits == SelectSeq(series, LAMBDA e : LocalDate(e.ts) = target)
  IN IF Len(hits) = 0
     THEN NoneVal
     ELSE DictVal(parse_entry(hits[Len(hits)]))

\* _run_single
run_single(series, target_date, now) ==
  LET target == IF HasDate(target_date) THEN target_date[1] ELSE now
      latest_entry == series[Len(series)]
  IN IF LocalDate(latest_entry.ts) # target
     THEN NoneVal
     ELSE DictVal(parse_entry(latest_entry))

\* the range test with the end date excluded
InRangeExclusive(entry, start_date, end_date) ==
  start_date[1] <= LocalDate(entry.ts) /\ LocalDate(entry.ts) < end_date[1]

InRange(entry, start_date, end_date) ==
  start_date[1] <= LocalDate(entry.ts) /\ LocalDate(entry.ts) <= end_date[1]

\* _run_bulk
run_bulk(series, start_date, end_date) ==
  LET kept == SelectSeq(series, LAMBDA e : InRange(e, start_date, end_date))
      results == [j \in 1..Len(kept) |-> parse_entry(kept[j])]
  IN IF Len(results) = 0 THEN NoneVal ELSE ListVal(results)

\* `not self.data or len(self.data) == 0 or not self.data[0].get("data")`
NoSeries(d) ==
  d.t = "None" \/ Len(d.v) = 0 \/ ~d.v[1].has \/ Len(d.v[1].data) = 0

\* DataCleaning.run answering an empty series with an empty list in range mode
ubs_clean_run_empty_list(d, target_date, start_date, end_date, now) ==
  IF NoSeries(d)
  THEN IF HasDate(start_date) /\ HasDate(end_date) THEN ListVal(<<>>)
       ELSE NoneVal
  ELSE IF HasDate(start_date) /\ HasDate(end_date)
       THEN run_bulk(d.v[1].data, start_date, end_date)
       ELSE run_single(d.v[1].data, target_date, now)

\* UBS DataCleaning.run
ubs_clean_run(d, target_date, start_date, end_date, now) ==
  IF NoSeries(d) THEN NoneVal
  ELSE IF HasDate(start_date) /\ HasDate(end_date)
       THEN run_bulk(d.v[1].data, start_date, end_date)
       ELSE run_single(d.v[1].data, target_date, now)

\* self.data[0] on a body that is no list raises; the script logs it
CleanRaises(d) == d.t = "dict"

\* cleaner.run() under the script's try/except: a raise leaves price_data None
ubs_clean_guarded(d, target, start, end, now) ==
  IF CleanRaises(d) THEN NoneVal ELSE ubs_clean_run(d, target, start, end, now)

\* DataCleaning.__init__
DataCleaning_init(d, target, start, end) ==
  [data |-> d, target_date |-> target, start_date |-> start, end_date |-> end]

\* DataCleaning.run: the statement that ends it, by the object's fields
clean_branch(c) ==
  IF CleanRaises(c.data) THEN "raised"
  ELSE IF NoSeries(c.data) THEN "guard"
  ELSE IF HasDate(c.start_date) /\ HasDate(c.end_date) THEN "bulk"
  ELSE "single"

\* the positions of self.data[0]["data"] that run() indexes or iterates over:
\* `[-1]` in _run_single, the whole list in _run_bulk's for loop
entries_read(c) ==
  CASE clean_branch(c) = "bulk" -> 1..Len(c.data.v[1].data)
    [] clean_branch(c) = "single" -> {Len(c.data.v[1].data)}
    [] OTHER -> {}

run_report(c) == [branch |-> clean_branch(c), entries |-> entries_read(c)]

\* truthiness of None, a list or a dict
TruthyVal(x) == x.t # "None" /\ Len(x.v) > 0

\* the script's start_date, end_date, target_date (lines 27-43)
BulkMode == Len(argv) > 1
start_date == IF BulkMode THEN <<argv[1]>> ELSE <<>>
end_date == IF BulkMode THEN <<argv[2]>> ELSE <<>>
target_date ==
  IF BulkMode THEN <<>> ELSE IF Len(argv) > 0 THEN <<argv[1]>> ELSE <<today>>

\* entries [timestamp_ms, open, high, low, close] by timestamp and close; the
\* timestamps lie on both sides of a Jakarta midnight
Timestamps == {61199999, 61200000, 147600000}
Entries == [ts : Timestamps, close : {100, 200}]
SeriesLists == UNION {[1..n -> Entries] : n \in 0..MaxEntries}
\* a second series of the body; the extractor reads self.data[0] only
OtherSeries == [has |-> TRUE, data |-> <<[ts |-> 147600000, close |-> 200]>>]

\* JSON bodies: [], or one or two series, the first with or without its "data"
Bodies ==
  {ListVal(<<>>), ListVal(<<[has |-> FALSE, data |-> <<>>]>>)}
  \cup {ListVal(<<[has |-> TRUE, data |-> es]>>) : es \in SeriesLists}
  \cup {ListVal(<<[has |-> TRUE, data |-> es], OtherSeries>>) : es \in SeriesLists}

\* a JSON body that is an object, not a list of series
ErrorBody == DictVal([has |-> FALSE, data |-> <<>>])

Dates == 0..MaxDay
Argvs == UNION {[1..n -> Dates] : n \in 0..2}

acqAll == <<acqLocals, files>>

\* lines 27-43: the mode and the interval
UbsArgs ==
  /\ pc = "u_args"
  /\ interval' = IF BulkMode THEN select_interval(argv[1], argv[2])
                 ELSE DefaultInterval
  /\ pc' = "u_fetch"
  /\ UNCHANGED <<acqAll, pegVars, csvVars, argv, today, response, requests,
                 data, price_data, cleaner, read>>

\* STEP 1 with a fetcher that posts a second time after a failed request
UbsFetchRetrying ==
  /\ pc = "u_fetch"
  /\ stages' = Append(stages, "fetch")
  /\ \/ /\ requests' = requests + 2
        /\ response' = NoneVal
        /\ data' = NoneVal
     \/ \E b \in Bodies \cup {ErrorBody}, n \in 1..2 :
          /\ requests' = requests + n
          /\ response' = b
          /\ data' = b
  /\ IF TruthyVal(data')
     THEN pc' = "u_clean" /\ UNCHANGED exitCode
     ELSE pc' = "u_exit" /\ exitCode' = 1
  /\ UNCHANGED <<acqAll, html_filename, cleaned_data, markup, diagnosis,
                 csvVars, argv, today, interval, price_data, cleaner, read>>

\* STEP 1: data = DataFetching(interval).run(); `if not data: sys.exit(1)`
UbsFetch ==
  /\ pc = "u_fetch"
  /\ stages' = Append(stages, "fetch")
  /\ requests' = requests + 1
  /\ \/ \* requests.post or raise_for_status raises RequestException: None
        /\ response' = NoneVal
        /\ data' = NoneVal
     \/ \E b \in Bodies \cup {ErrorBody} :
          /\ response' = b
          /\ data' = b
  /\ IF TruthyVal(data')
     THEN pc' = "u_clean" /\ UNCHANGED exitCode
     ELSE pc' = "u_exit" /\ exitCode' = 1
  /\ UNCHANGED <<acqAll, html_filename, cleaned_data, markup, diagnosis,
                 csvVars, argv, today, interval, price_data, cleaner, read>>

\* UbsClean without `if not price_data: sys.exit(1)`
UbsCleanUnchecked ==
  /\ pc = "u_clean"
  /\ stages' = Append(stages, "extract")
  /\ cleaner' = DataCleaning_init(data, target_date, start_date, end_date)
  /\ read' = run_report(cleaner')
  /\ price_data' = ubs_clean_guarded(data, target_date, start_date, end_date, today)
  /\ pc' = "u_store"
  /\ UNCHANGED <<acqAll, html_filename, cleaned_data, markup, diagnosis,
                 exitCode, csvVars, argv, today, response, requests, interval,
                 data>>

\* STEP 2: price_data = DataCleaning(...).run(); `if not price_data: sys.exit(1)`
UbsClean ==
  /\ pc = "u_clean"
  /\ stages' = Append(stages, "extract")
  /\ cleaner' = DataCleaning_init(data, target_date, start_date, end_date)
  /\ read' = run_report(cleaner')
  /\ price_data' = ubs_clean_guarded(data, target_date, start_date, end_date, today)
  /\ IF TruthyVal(price_data')
     THEN pc' = "u_store" /\ UNCHANGED exitCode
     ELSE pc' = "u_exit" /\ exitCode' = 1
  /\ UNCHANGED <<acqAll, html_filename, cleaned_data, markup, diagnosis,
                 csvVars, argv, today, response, requests, interval, data>>

\* STEP 3: storer = DataStoring(OUTPUT_FILE, price_data)
UbsStoreConstruct ==
  /\ pc = "u_store"
  /\ stages' = Append(stages, "store")
  /\ call' = [cls |-> "ubs", arg |-> price_data, html |-> None]
  /\ ncalls' = ncalls + 1
  /\ pc' = "u_run"
  /\ UNCHANGED <<acqAll, html_filename, cleaned_data, markup, diagnosis,
                 exitCode, csv, csvExists, opens, last, ubsVars>>

\* storer.run(); `except Exception: sys.exit(1)`, else the script ends
UbsStoreRun ==
  /\ ubs_store_run("u_run", "u_exit", "u_exit")
  /\ exitCode' = IF last'.raised THEN 1 ELSE 0
  /\ UNCHANGED <<acqAll, html_filename, cleaned_data, markup, diagnosis, stages,
                 ubsVars>>

InitUBS ==
  /\ pc = "u_args"
  /\ RotationIdle /\ ScraperIdle /\ PegIdle
  /\ files = {}
  /\ argv \in Argvs
  /\ today \in Dates
  /\ response = NoneVal
  /\ requests = 0
  /\ interval = 0
  /\ data = NoneVal
  /\ price_data = NoneVal
  /\ cleaner = NoCleaner
  /\ read = NotRead
  /\ \E d \in Destinations("ubs") : csv = d.rows /\ csvExists = d.exists
  /\ opens = 0
  /\ call = NoCall
  /\ last = NoReport
  /\ ncalls = 0

NextUBS ==
  \/ UbsArgs
  \/ UbsFetch
  \/ UbsClean
  \/ UbsStoreConstruct
  \/ UbsStoreRun

SpecUBS == InitUBS /\ [][NextUBS]_vars

(* ------------------- the interval of a requested range ------------------ *)
\* the range modes of the entry script over day spans that reach every
\* element of AVAILABLE_INTERVALS and pass the last one
MaxStart == 2
MaxEnd == 1100

IntervalArgvs ==
  Argvs \cup {<<s, e>> : s \in 0..MaxStart, e \in 0..MaxEnd}

InitInterval ==
  /\ pc = "u_args"
  /\ RotationIdle /\ ScraperIdle /\ PegIdle /\ CsvIdle
  /\ files = {}
  /\ argv \in IntervalArgvs
  /\ today \in Dates
  /\ response = NoneVal
  /\ requests = 0
  /\ interval = 0
  /\ data = NoneVal
  /\ price_data = NoneVal
  /\ cleaner = NoCleaner
  /\ read = NotRead

NextInterval == UbsArgs

SpecInterval == InitInterval /\ [][NextInterval]_vars

(* --------------------- the Series Extractor by itself ------------------ *)
\* DataCleaning constructed and run by any caller: every body, None, and
\* each of the three dates given or left out
OptDates == {<<>>} \cup {<<d>> : d \in Dates}

ExtractorConstruct ==
  /\ pc = "x_new"
  /\ \E d \in Bodies \cup {NoneVal, ErrorBody}, t \in OptDates,
        s \in OptDates, e \in OptDates :
       cleaner' = DataCleaning_init(d, t, s, e)
  /\ pc' = "x_run"
  /\ UNCHANGED <<acqAll, pegVars, csvVars, argv, today, response, requests,
                 interval, data, price_data, read>>

\* cleaner.run(): the value returned, or the raise
ExtractorRun ==
  /\ pc = "x_run"
  /\ read' = run_report(cleaner)
  /\ IF CleanRaises(cleaner.data)
     THEN UNCHANGED price_data
     ELSE price_data' = ubs_clean_run(cleaner.data, cleaner.target_date,
                                      cleaner.start_date, cleaner.end_date,
                                      today)
  /\ pc' = "x_done"
  /\ UNCHANGED <<acqAll, pegVars, csvVars, argv, today, response, requests,
                 interval, data, cleaner>>

InitExtractor ==
  /\ pc = "x_new"
  /\ RotationIdle /\ ScraperIdle /\ PegIdle /\ CsvIdle
  /\ files = {}
  /\ argv = <<>>
  /\ today \in Dates
  /\ response = NoneVal
  /\ requests = 0
  /\ interval = 0
  /\ data = NoneVal
  /\ price_data = NoneVal
  /\ cleaner = NoCleaner
  /\ read = NotRead

NextExtractor ==
  \/ ExtractorConstruct
  \/ ExtractorRun

SpecExtractor == InitExtractor /\ [][NextExtractor]_vars

(* ------------------- the rotation, run to its end ---------------------- *)
\* the interpreter keeps executing the operation: every wait of run_scraper
\* is bounded (WebDriverWait(driver, 60), the poll's max_wait), so a step
\* that can be taken is taken
SpecRotationFair == SpecRotation /\ WF_vars(NextRotation)

(* ============================== claims ================================= *)
\* an attempt that ended without an artifact: it raised, or returned None or ""
AttemptFailed(a) == a.st = "raised" \/ (a.st = "returned" /\ ~Truthy(a.val))
AttemptSucceeded(a) == a.st = "returned" /\ Truthy(a.val)

\* C1: with a non-empty ranked list the proxies are attempted in list order,
\* every attempt before the last one made has failed, and once the k-th
\* proxied attempt yields an artifact the operation has returned that artifact
\* after exactly k attempts, none of them unproxied.
C1_FirstSuccessEndsRotation ==
  Len(proxies) >= 1 =>
    /\ \A j \in 1..Len(attempts) :
         /\ j <= Len(proxies) => attempts[j].proxy = format_proxy(proxies[j])
         /\ j < Len(attempts) => AttemptFailed(attempts[j])
    /\ \A k \in 1..Len(attempts) :
         (k <= Len(proxies) /\ AttemptSucceeded(attempts[k])) =>
           /\ Len(attempts) = k
           /\ pc = "done" /\ outcome = "returned"
           /\ result = attempts[k].val
           /\ result = Filename(attempts[k].session)
           /\ \A j \in 1..k : attempts[j].proxy # 0

\* C1 witness: the first proxy raised, the second succeeded, two attempts made.
C1_Witness ==
  /\ pc = "done" /\ Len(proxies) = 2 /\ Len(attempts) = 2
  /\ attempts[1].st = "raised"
  /\ AttemptSucceeded(attempts[2])
  /\ result = attempts[2].val

\* C2 (as claimed): when all N >= 1 proxied attempts and the one unproxied
\* attempt after them have failed, the operation has returned None.
C2_AllFailReturnsNone ==
  (/\ pc = "done" /\ Len(proxies) >= 1
   /\ Len(attempts) = Len(proxies) + 1
   /\ AttemptFailed(attempts[Len(attempts)]))
  => (outcome = "returned" /\ result = None)

\* C3 (as claimed): at most one browser session is open in every state, none
\* is open once the operation has ended, and no session serves two attempts.
C3_OneSessionAtATime ==
  /\ Cardinality(open) <= 1
  /\ pc = "done" => open = {}
  /\ \A j, k \in 1..Len(attempts) :
       (j # k /\ attempts[j].session # 0) => attempts[j].session # attempts[k].session

\* C9: once the anti-bot wait of an attempt has timed out the attempt is at its
\* return with None, after one wait, no markup check and no artifact written.
C9_AntiBotTimeoutAborts ==
  gate = "timeout" =>
    /\ spc = "ret" /\ sres = None
    /\ waits = 1
    /\ checks = 0
    /\ ArtifactName \notin files

\* C9 witness: a proxied attempt whose anti-bot wait timed out.
C9_Witness == pc = "scrape" /\ gate = "timeout" /\ spc = "ret"

\* the readiness poll ran to its ceiling without seeing the marker
PollTimedOut == gate = "passed" /\ ~detected /\ ~(elapsed < max_wait)

\* C10: an attempt that passed the gate and returns without a later driver or
\* write failure returns the path of the artifact it wrote, whether the poll
\* saw the marker or ran to its ceiling.
C10_CeilingStillSaves ==
  /\ (PollTimedOut /\ spc = "ret" /\ ~fault) =>
       (sres = Filename(ArtifactName) /\ ArtifactName \in files)
  /\ (gate = "passed" /\ detected /\ spc = "ret" /\ ~fault) =>
       (sres = Filename(ArtifactName) /\ ArtifactName \in files)
  /\ (PollTimedOut /\ spc # "poll") => checks * poll_interval = max_wait

\* C10 witness: the poll timed out after 30 checks and the artifact is returned.
C10_Witness ==
  /\ PollTimedOut /\ spc = "ret" /\ ~fault
  /\ checks = 30
  /\ sres = Filename(ArtifactName) /\ ArtifactName \in files

\* C4: the Pegadaian store removes the artifact only in a call that has
\* written its data row, at a point where the row is already in the file; a
\* call whose storage did not complete leaves its artifact on disk.
C4_ArtifactRemovedOnlyAfterStore ==
  /\ pc = "s_remove" =>
       (last.rows = 1 /\ ~last.raised /\ csv[Len(csv)].kind = "data")
  /\ last.removed => (last.cls = "pegadaian" /\ last.rows = 1)
  /\ (pc = "s_idle" /\ last.cls = "pegadaian" /\ last.rows = 0
      /\ Truthy(call.html)) => call.html.n \in files
  /\ \A k \in 1..MaxCalls :
       k \notin files => (k <= ncalls /\ NumKind(csv, "data") >= 1)

\* C4 witnesses: a call that raised on an invalid price list and kept its
\* artifact, after a call that stored its row and removed its own.
C4_Witness ==
  /\ pc = "s_idle" /\ ncalls = 2 /\ last.cls = "pegadaian"
  /\ last.raised /\ ~last.io /\ last.rows = 0
  /\ files = {2} /\ call.html = Filename(2)

\* C5: the destination holds at most one header row, as its first row, and a
\* call writes a header only into an empty destination.
C5_HeaderAtMostOnce ==
  /\ NumKind(csv, "header") <= 1
  /\ NumKind(csv, "header") = 1 => csv[1].kind = "header"
  /\ last.header <= 1
  /\ last.header = 1 => last.wasEmpty

\* C5 witness: a second, multi-record call appended to a non-empty destination
\* that a failed first call had left with its header only.
C5_Witness ==
  /\ pc = "s_idle" /\ ncalls = 2
  /\ last.cls = "ubs" /\ ~last.wasEmpty /\ last.rows = 2 /\ last.header = 0
  /\ Len(csv) = 3 /\ csv[1].kind = "header"

\* C6 (as claimed, for calls whose writes the file system accepts): a Pegadaian
\* store call that wrote the header also wrote one data row after it.
C6_HeaderComesWithRow ==
  (last.cls = "pegadaian" /\ ~last.io /\ last.header = 1) =>
    (last.rows = 1 /\ csv[Len(csv)].kind = "data")

StageRun(st) == \E j \in 1..Len(stages) : stages[j] = st

\* C7 (as claimed): the Pegadaian entry point runs the extractor only on an
\* artifact and the store only on extracted prices, and a run in which a stage
\* yielded absent ends with a non-zero exit status and the destination unopened.
C7_EntryHaltsOnAbsence ==
  /\ StageRun("extract") => Truthy(html_filename)
  /\ StageRun("store") => (Truthy(html_filename) /\ cleaned_data.t # "None")
  /\ (pc = "e_exit" /\ (~Truthy(html_filename) \/ cleaned_data.t = "None")) =>
       (exitCode # 0 /\ opens = 0)

IsPrefix(a, b) == Len(a) <= Len(b) /\ \A j \in 1..Len(a) : a[j] = b[j]

\* C8: the UBS entry point runs its stages in the order fetch, extract, store,
\* runs the store only on fetched data and an extracted result, and exits
\* with status 0 exactly when all three stages ran and the store did not raise.
C8_UbsStagesAndExit ==
  /\ IsPrefix(stages, <<"fetch", "extract", "store">>)
  /\ StageRun("extract") => TruthyVal(data)
  /\ StageRun("store") => (TruthyVal(data) /\ TruthyVal(price_data))
  /\ pc = "u_exit" =>
       /\ exitCode \in {0, 1}
       /\ exitCode = 0 <=>
            (/\ stages = <<"fetch", "extract", "store">>
             /\ TruthyVal(data) /\ TruthyVal(price_data)
             /\ last.cls = "ubs" /\ ~last.raised /\ last.rows = Len(price_data.v))
  /\ pc # "u_exit" => exitCode = -1

\* C8 witness: a bulk run that fetched, kept two entries, stored them, exit 0.
C8_Witness ==
  /\ pc = "u_exit" /\ exitCode = 0
  /\ stages = <<"fetch", "extract", "store">>
  /\ BulkMode /\ price_data.t = "list" /\ last.rows = 2

(* ------------------------------- C11 ----------------------------------- *)
IntervalSet == {AVAILABLE_INTERVALS[j] : j \in 1..Len(AVAILABLE_INTERVALS)}

RangeDays == (argv[2] - argv[1]) + 1

\* C11: for a range with start <= end the interval chosen is an element of
\* the list; it is the smallest element that is at least the inclusive day
\* count (end - start) + 1, and 1095 when the day count exceeds 1095; a
\* one-day range gets 7.
C11_SmallestCoveringInterval ==
  (pc = "u_fetch" /\ BulkMode /\ argv[1] <= argv[2]) =>
    /\ interval \in IntervalSet
    /\ IF \E x \in IntervalSet : x >= RangeDays
         THEN /\ interval >= RangeDays
              /\ \A x \in IntervalSet : x >= RangeDays => interval <= x
         ELSE interval = 1095
    /\ RangeDays > 1095 => interval = 1095
    /\ argv[1] = argv[2] => interval = 7

C11_Witness ==
  /\ pc = "u_fetch" /\ BulkMode /\ argv[1] <= argv[2]
  /\ RangeDays = 8 /\ interval = 30

(* ------------------------------- C12 ----------------------------------- *)
\* the Asia/Jakarta calendar day of each timestamp of the model:
\* 1970-01-01T23:59:59.999+07:00, 1970-01-02T00:00+07:00, 1970-01-03T00:00+07:00
JakartaDay(ts) ==
  CASE ts = 61199999 -> 0
    [] ts = 61200000 -> 1
    [] ts = 147600000 -> 2

SingleExtracted ==
  /\ ~BulkMode /\ StageRun("extract")
  /\ data.t = "list" /\ ~NoSeries(data)

\* C12: in single-date mode the extractor looks at the last entry of the
\* first series only: when its local date is the target date the result is
\* one record with that entry's closing value and that date, and otherwise
\* the result is absent, whatever the earlier entries are.
C12_SingleInspectsLastEntry ==
  SingleExtracted =>
    LET es == data.v[1].data
        latest == es[Len(es)]
    IN IF JakartaDay(latest.ts) = target_date[1]
       THEN /\ price_data.t = "dict"
            /\ Len(price_data.v) = 1
            /\ price_data.v[1] = [price |-> latest.close, date |-> target_date[1]]
       ELSE price_data = NoneVal

\* an earlier entry has the target date, the last one has not
C12_Witness ==
  /\ SingleExtracted
  /\ Len(data.v[1].data) = 2
  /\ JakartaDay(data.v[1].data[1].ts) = target_date[1]
  /\ JakartaDay(data.v[1].data[2].ts) # target_date[1]
  /\ price_data = NoneVal
  /\ pc = "u_exit" /\ exitCode = 1

(* ------------------------------- C13 ----------------------------------- *)
BulkExtracted ==
  /\ BulkMode /\ StageRun("extract")
  /\ data.t = "list" /\ ~NoSeries(data)

\* positions of the first series whose local date lies in [start, end]
KeptPositions ==
  {j \in 1..Len(data.v[1].data) :
     /\ argv[1] <= JakartaDay(data.v[1].data[j].ts)
     /\ JakartaDay(data.v[1].data[j].ts) <= argv[2]}

\* the k-th kept position, counted in series order
KeptAt(k) ==
  CHOOSE j \in KeptPositions :
    Cardinality({i \in KeptPositions : i <= j}) = k

\* C13: in range mode the result holds exactly the entries of the first
\* series whose local date d has start_date <= d <= end_date, one record per
\* entry, in the order of the series, each with the entry's closing value;
\* when no entry qualifies the result is absent, not an empty list.
C13_RangeKeepsEntriesInOrder ==
  BulkExtracted =>
    IF KeptPositions = {}
    THEN price_data = NoneVal
    ELSE /\ price_data.t = "list"
         /\ Len(price_data.v) = Cardinality(KeptPositions)
         /\ \A k \in 1..Len(price_data.v) :
              price_data.v[k] =
                [price |-> data.v[1].data[KeptAt(k)].close,
                 date |-> JakartaDay(data.v[1].data[KeptAt(k)].ts)]

\* a range that keeps one of two entries, the entry on the end date
C13_Witness ==
  /\ BulkExtracted
  /\ Len(data.v[1].data) = 2
  /\ KeptPositions = {2}
  /\ JakartaDay(data.v[1].data[2].ts) = argv[2]
  /\ price_data.t = "list" /\ Len(price_data.v) = 1

(* ------------------------------- C14 ----------------------------------- *)
\* positions of the text nodes of the artifact that hold the currency marker
MarkedPositions ==
  {j \in 1..Len(markup.nodes) :
     \E i \in 1..Len(markup.nodes[j]) : markup.nodes[j][i] = "Rp "}

\* the k-th marked position, in document order
MarkedAt(k) ==
  CHOOSE j \in MarkedPositions :
    Cardinality({i \in MarkedPositions : i <= j}) = k

\* the digits of each text node of the model
DigitsOf(text) ==
  CASE text = <<"Rp ", "1", ".", "5">> -> <<"1", "5">>
    [] text = <<"Rp ">> -> <<>>
    [] text = <<"1", "5">> -> <<"1", "5">>

\* the raw text holds an indicator, in whatever case
HoldsIndicator ==
  markup.ind \cap {"loading-spinner", "LOADING-SPINNER", "skeleton",
                   "Skeleton", "nuxt-loading"} # {}

ArtifactRead == StageRun("extract") /\ diagnosis # "none"

\* C14: the Markup Extractor returns absent exactly when the artifact has
\* fewer than 2 currency-marked text nodes, and then reports StillLoading
\* when the raw markup holds 'loading-spinner', 'skeleton' or 'nuxt-loading'
\* in any case and StructureChanged otherwise; with 2 or more marked nodes
\* it returns one string per node in document order, whatever indicators
\* the markup holds.
C14_AbsentIffTooFewNodes ==
  ArtifactRead =>
    IF Cardinality(MarkedPositions) < 2
    THEN /\ cleaned_data = NoneVal
         /\ diagnosis = IF HoldsIndicator THEN "StillLoading"
                        ELSE "StructureChanged"
    ELSE /\ cleaned_data.t = "list"
         /\ Len(cleaned_data.v) = Cardinality(MarkedPositions)
         /\ \A k \in 1..Len(cleaned_data.v) :
              cleaned_data.v[k] = DigitsOf(markup.nodes[MarkedAt(k)])
         /\ diagnosis = "ok"

\* one marked node and an upper-case indicator: absent, StillLoading
C14_Witness ==
  /\ ArtifactRead
  /\ Cardinality(MarkedPositions) = 1
  /\ markup.ind = {"LOADING-SPINNER"}
  /\ cleaned_data = NoneVal /\ diagnosis = "StillLoading"

(* ------------------------------- C15 ----------------------------------- *)
\* C15 (as claimed): with a missing or empty proxy list the operation makes
\* exactly one attempt, unproxied; what it returns is that attempt's result;
\* the attempt's session is torn down when the operation ends; no second
\* attempt follows.
C15_NoProxiesOneUnproxiedAttempt ==
  config = <<>> =>
    /\ Len(attempts) <= 1
    /\ \A j \in 1..Len(attempts) : attempts[j].proxy = 0
    /\ pc = "done" =>
         /\ Len(attempts) = 1
         /\ outcome = "returned" => result = attempts[1].val
         /\ attempts[1].session \notin open

(* ------------------------------- C16 ----------------------------------- *)
\* the uptime a descriptor of the configuration reports, 0 when it has none
ReportedUptime(id) ==
  IF config[id].uptime.has THEN config[id].uptime.pct ELSE 0

ProxiedAttempts == SelectSeq(attempts, LAMBDA a : a.proxy # 0)

\* C16: the proxied attempts are made in non-increasing order of reported
\* uptime: no proxy is attempted before one of strictly higher uptime, and
\* proxies of equal uptime are attempted in configuration order.
C16_AttemptsByUptimeStable ==
  \A j, k \in 1..Len(ProxiedAttempts) :
    j < k =>
      /\ ReportedUptime(ProxiedAttempts[j].proxy)
           >= ReportedUptime(ProxiedAttempts[k].proxy)
      /\ ReportedUptime(ProxiedAttempts[j].proxy)
           = ReportedUptime(ProxiedAttempts[k].proxy)
         => ProxiedAttempts[j].proxy < ProxiedAttempts[k].proxy

\* the second descriptor of the configuration reports more and is tried first
C16_Witness ==
  /\ Len(ProxiedAttempts) = 2
  /\ ProxiedAttempts[1].proxy = 2 /\ ProxiedAttempts[2].proxy = 1
  /\ ReportedUptime(2) > ReportedUptime(1)

(* ------------------------------- C17 ----------------------------------- *)
FetchFailed == StageRun("fetch") /\ response = NoneVal

\* C17: the Series Fetcher issues exactly one request per invocation and
\* never retries; when the request fails (transport failure or a non-success
\* status) it returns None after that one request, and the UBS entry point
\* then exits with a non-zero status without running the extractor or the
\* store.
C17_OneRequestNoRetry ==
  /\ requests <= 1
  /\ StageRun("fetch") => requests = 1
  /\ FetchFailed =>
       /\ data = NoneVal
       /\ pc = "u_exit" /\ exitCode = 1
       /\ stages = <<"fetch">>
       /\ ncalls = 0 /\ opens = 0 /\ last = NoReport

C17_Witness ==
  /\ FetchFailed
  /\ requests = 1
  /\ pc = "u_exit" /\ exitCode = 1
  /\ BulkMode

(* ------------------------------- C18 ----------------------------------- *)
\* the records a UBS store call was given: a list, or one record
GivenRecords == IF call.arg.t = "list" THEN call.arg.v ELSE <<call.arg.v[1]>>

\* C18: the UBS store only appends and keeps the input order: over a call the
\* content before is a prefix of the content after, and a call that returns
\* has added exactly one data row per record given, in input order, behind
\* one header row when and only when the destination held nothing; one
\* record given alone is stored as a sequence of length 1.
C18_UbsAppendsInInputOrder ==
  [][(pc = "s_ubs" /\ call.cls = "ubs") =>
       /\ IsPrefix(csv, csv')
       /\ ~last'.raised =>
            LET added == SubSeq(csv', Len(csv) + 1, Len(csv'))
                n == Len(GivenRecords)
                h == IF Len(csv) = 0 THEN 1 ELSE 0
            IN /\ Len(added) = h + n
               /\ h = 1 => added[1].kind = "header"
               /\ call.arg.t = "dict" => n = 1
               /\ \A j \in 1..n :
                    /\ added[h + j].kind = "data"
                    /\ added[h + j].rec
                         = <<GivenRecords[j].price, GivenRecords[j].date>>]_vars

\* two different records appended behind earlier content
C18_Witness ==
  /\ pc = "s_idle" /\ call.cls = "ubs" /\ ~last.raised
  /\ call.arg.t = "list" /\ Len(call.arg.v) = 2
  /\ call.arg.v[1] # call.arg.v[2]
  /\ ~last.wasEmpty /\ last.header = 0 /\ last.rows = 2
  /\ Len(csv) > 2

(* ------------------------------- C19 ----------------------------------- *)
DigitString(str) ==
  /\ Len(str) > 0
  /\ \A i \in 1..Len(str) :
       str[i] \in {"0", "1", "2", "3", "4", "5", "6", "7", "8", "9"}

\* the Pegadaian store has written the row of an extracted price list
ExtractedRowStored ==
  /\ StageRun("store") /\ pc \in {"e_remove", "e_exit"}
  /\ cleaned_data.t = "list"
  /\ last.cls = "pegadaian" /\ last.rows = 1

\* C19 (as claimed): harga_beli and harga_jual of every row the Pegadaian
\* store writes from a Markup Extractor result are non-empty strings of
\* decimal digits only, whatever the marked nodes of the markup hold.
C19_StoredPricesAreDigitStrings ==
  ExtractedRowStored =>
    /\ csv[Len(csv)].kind = "data"
    /\ DigitString(csv[Len(csv)].rec[1])
    /\ DigitString(csv[Len(csv)].rec[2])

(* ------------------------------- C20 ----------------------------------- *)
\* C20: the readiness poll terminates: it checks the markup at most 30 times,
\* elapsed growing by 2 with each check that does not see the marker and
\* never passing 60; the first check that sees the marker ends the poll with
\* no further sleep; no check is made once elapsed has reached 60. Every
\* step of the poll either leaves it or adds 2 to elapsed.
C20_PollTerminates ==
  /\ [](/\ checks <= 30
        /\ elapsed <= 60
        /\ spc = "poll" => (~detected /\ elapsed = 2 * checks)
        /\ detected => (spc # "poll" /\ elapsed = 2 * (checks - 1))
        /\ elapsed >= 60 => checks = 30)
  /\ [][spc = "poll" =>
          \/ spc' # "poll"
          \/ (elapsed' = elapsed + 2 /\ checks' = checks + 1)]_<<spc, elapsed, checks>>

\* the marker is seen by the last check the ceiling allows
C20_Witness ==
  /\ spc = "snapshot" /\ detected
  /\ checks = 30 /\ elapsed = 58

(* ------------------------------- C21 ----------------------------------- *)
\* the raw series is None or [], or its first element has no "data" or an
\* empty one
SeriesEmpty ==
  \/ cleaner.data.t = "None"
  \/ /\ cleaner.data.t = "list"
     /\ \/ Len(cleaner.data.v) = 0
        \/ ~cleaner.data.v[1].has
        \/ Len(cleaner.data.v[1].data) = 0

BothDatesGiven == Len(cleaner.start_date) = 1 /\ Len(cleaner.end_date) = 1

\* C21: on an empty raw series, or one whose first element has no entries,
\* the Series Extractor returns absent, reads no entry and does not raise,
\* in single-date and in range mode alike; on any other series it runs in
\* range mode when start_date and end_date are both given and in single-date
\* mode otherwise.
C21_EmptySeriesAbsentAndModeChoice ==
  pc = "x_done" =>
    /\ SeriesEmpty =>
         /\ price_data = NoneVal
         /\ read.entries = {}
         /\ read.branch = "guard"
    /\ (~SeriesEmpty /\ cleaner.data.t = "list") =>
         /\ read.branch = IF BothDatesGiven THEN "bulk" ELSE "single"
         /\ price_data.t = "list" => BothDatesGiven
         /\ price_data.t = "dict" => ~BothDatesGiven

\* range mode asked for, and the first element has no "data"
C21_Witness ==
  /\ pc = "x_done"
  /\ BothDatesGiven
  /\ cleaner.data.t = "list" /\ Len(cleaner.data.v) = 1
  /\ ~cleaner.data.v[1].has
  /\ price_data = NoneVal /\ read.branch = "guard" /\ read.entries = {}

(* ------------------------------- C22 ----------------------------------- *)
\* C22: over a configuration of N proxies the operation ends, after at most
\* N + 1 attempts: no proxy is attempted twice, the unproxied attempt is made
\* at most once, and when it is made it is attempt N + 1, behind N proxied
\* attempts that have all failed.
C22_RotationEndsWithinNPlusOne ==
  /\ [](/\ Len(attempts) <= Len(config) + 1
        /\ \A j, k \in 1..Len(attempts) :
             j # k => attempts[j].proxy # attempts[k].proxy
        /\ \A k \in 1..Len(attempts) :
             attempts[k].proxy = 0 =>
               /\ k = Len(config) + 1
               /\ \A j \in 1..(k - 1) :
                    attempts[j].proxy # 0 /\ AttemptFailed(attempts[j]))
  /\ <>(pc = "done")

\* two proxies and the fallback, all failed: three attempts, then the end
C22_Witness ==
  /\ pc = "done"
  /\ Len(config) = 2 /\ Len(attempts) = 3
  /\ attempts[3].proxy = 0
  /\ \A j \in 1..3 : AttemptFailed(attempts[j])

====
